---- MODULE Spec2Model ----
(***************************************************************************)
(* Model of the terminal time tracker of src/src/lib.rs: the App page      *)
(* stack state machine (App::run, App::render, App::handle_events and the  *)
(* page handlers) on top of the SQLite-backed Database.                    *)
(*                                                                         *)
(* The Rust call chain run -> render -> handle_events -> handle_page_event *)
(* -> handler -> render -> ... is a recursion, not a loop.  The model      *)
(* keeps the position of the innermost call in pc and counts in pending    *)
(* the render frames that are suspended inside                             *)
(* render_project_create_or_edit: when the innermost handle_events returns *)
(* Ok, every frame up to the innermost such render frame returns, and that *)
(* frame goes on to flush the screen and to call handle_events again.      *)
(***************************************************************************)
EXTENDS Integers, Sequences, FiniteSets, TLC

(* ------------------------------ bounds --------------------------------- *)

\* largest row id a table may reach (guards the create flow)
MaxId == 2
\* largest row ids present in the three tables of the database file when the
\* program starts
MaxInitProjectId == 1
MaxInitTaskId == 2
MaxInitEntryId == 1
\* largest number of suspended render_project_create_or_edit frames
MaxPending == 1

(* ------------------------- program constants --------------------------- *)

U16 == 65536

Pages == {"Time", "Projects", "Settings", "ProjectDetail",
          "TimeEntryCreateOrEdit", "ProjectCreateOrEdit", "TaskCreateOrEdit"}

\* the key codes the handlers distinguish, one key no handler knows ("x"),
\* and one terminal event that is not a key
KeyChars == {"c", "e", "d", "p", "s", "t", "b", "q", "a", " ", "x"}
Events == KeyChars \cup {"resize"}

\* lines typed at the name prompt and at the description prompt
NameLines == {"a", "b"}
DescriptionLines == {"d"}

\* Terminal::read_line: stdin.read_line keeps the line terminator
read_line(typed) == typed \o "\n"

(* ------------------------------ state ---------------------------------- *)

VARIABLES
    page_stack,       \* App.page_stack
    selection,        \* App.selection
    time_entries,     \* App.time_entries
    projects,         \* App.projects
    tasks,            \* App.tasks
    time_entry,       \* App.time_entry (Option<TimeEntry>)
    project,          \* App.project (Option<Project>)
    quit,             \* App.quit
    db_projects,      \* table projects, in rowid order
    db_tasks,         \* table tasks, in rowid order
    db_time_entries,  \* table time_entries, in rowid order
    pc,               \* position of the innermost call
    pending,          \* suspended render_project_create_or_edit frames
    err,              \* the error run returned with, "none" otherwise
    cursor,           \* after a render step, the row of its set_cursor(0, row)
                      \* call; -1 when the last step made no such call
    ev,               \* after a handle_events step, the event it read;
                      \* "none" when the last step read no event
    evPage,           \* the page that was active when ev was read
    prompted,         \* after a handle_events step, the line its handler read
                      \* at a prompt; <<>> when the step read no such line
    store_failed,     \* a Database call of the last step returned an error
    db_settings,      \* table settings, in rowid order
    call,             \* the last direct call of a Database method: its name,
                      \* its arguments, whether the statement was made to
                      \* fail, and what it returned
    issued,           \* the ids create_project returned, in call order
    saves,            \* the (name, email) of the save_settings calls that
                      \* returned Ok, in call order
    running,          \* App.running: the value of the flag the App holds
    poller_running,   \* Terminal.running: the value of the flag the poller
                      \* thread of Terminal::new reads as r
    channel,          \* the events sent on the channel of Terminal::new and
                      \* not received, each with the time it was sent at
    last_event,       \* last_event of the poller thread, in ms since it started
    now,              \* the time, in ms since the poller thread started
    polled,           \* the last event the poller thread read: the event, the
                      \* time, and whether it was sent on the channel
    main_pc,          \* position of main (src/main.rs)
    ended,            \* ended of main
    main_tasks,       \* tasks of main: the tasks being timed
    tasks_completed,  \* tasks_completed of main
    stdin,            \* the lines main has not read yet
    stdout            \* the lines main has printed

\* the state of the App and what is observed of its steps
appVars == <<page_stack, selection, time_entries, projects, tasks, time_entry,
             project, quit, pc, pending, err, cursor, ev, evPage,
             prompted, store_failed, running, poller_running, channel,
             last_event, now, polled, main_pc, ended, main_tasks,
             tasks_completed, stdin, stdout>>

\* the poller thread of Terminal::new, its channel and the clock
pollerVars == <<poller_running, channel, last_event, now, polled>>

\* the state of main, its input and its output
mainVars == <<main_pc, ended, main_tasks, tasks_completed, stdin, stdout>>

\* what is observed of direct calls of the Database
callVars == <<call, issued, saves>>

vars == <<page_stack, selection, time_entries, projects, tasks, time_entry,
          project, quit, db_projects, db_tasks, db_time_entries, pc, pending,
          err, cursor, ev, evPage, prompted, store_failed, db_settings,
          call, issued, saves, running, poller_running, channel, last_event,
          now, polled, main_pc, ended, main_tasks, tasks_completed, stdin,
          stdout>>

(* ----------------------------- helpers --------------------------------- *)

Last(s) == s[Len(s)]
Front(s) == SubSeq(s, 1, Len(s) - 1)
Ids(s) == {s[i].id : i \in 1 .. Len(s)}
RemoveAt(s, i) == SubSeq(s, 1, i - 1) \o SubSeq(s, i + 1, Len(s))
SetMax(S) == CHOOSE x \in S : \A y \in S : y <= x

\* Vec::retain(|r| r.id != id)
RetainNotId(s, id) == SelectSeq(s, LAMBDA r : r.id # id)

\* Vec::pop on the page stack (None on an empty vector)
pop(s) == IF Len(s) = 0 THEN s ELSE Front(s)

\* INTEGER PRIMARY KEY without AUTOINCREMENT: one more than the largest rowid
last_insert_rowid(table) == IF Len(table) = 0 THEN 1 ELSE SetMax(Ids(table)) + 1

(* ------------------------------ Database ------------------------------- *)

NewProject(id, name, description) ==
    [id |-> id, name |-> name, description |-> description]

\* create_project with the two bound parameters in the other order
db_create_project_swapped(table, name, description) ==
    Append(table, NewProject(last_insert_rowid(table), description, name))

\* INSERT INTO projects (name, description) VALUES (?1, ?2)
db_create_project(table, name, description) ==
    Append(table, NewProject(last_insert_rowid(table), name, description))

\* DELETE FROM projects WHERE id = ?1
db_delete_project(table, id) == RetainNotId(table, id)

\* DELETE FROM time_entries WHERE id = ?1
db_delete_time_entry(table, id) == RetainNotId(table, id)

\* Result<T, Box<dyn Error>>
Ok(value) == [ok |-> TRUE, value |-> value]
Err(error) == [ok |-> FALSE, error |-> error]

\* the row with the id, for an id of the table
RowOf(table, id) == table[CHOOSE i \in 1 .. Len(table) : table[i].id = id]

\* SELECT id, name, description FROM projects WHERE id = ?1: the first row,
\* or Err("Project not found") when the query has none
db_get_project(table, id) ==
    IF id \in Ids(table) THEN Ok(RowOf(table, id)) ELSE Err("NotFound")

NewTimeEntry(id, f) ==
    [id |-> id, project_id |-> f.project_id, task_id |-> f.task_id,
     description |-> f.description, start_time |-> f.start_time,
     end_time |-> f.end_time, duration |-> f.duration,
     created_at |-> f.created_at]

\* the placeholders ?1 .. ?7 of the INSERT statement of create_time_entry and
\* the values its params![...] binds
InsertPlaceholders == 7
InsertParams == 5

\* Database::create_time_entry.  The statement is executed with fewer values
\* than it has placeholders, which rusqlite refuses before it runs the
\* statement: with Error::InvalidParameterCount, or in older releases with a
\* failed assertion (asserts: the release in use is one of those).
db_create_time_entry(table, f, asserts) ==
    IF InsertParams # InsertPlaceholders
    THEN [table |-> table,
          ret |-> IF asserts THEN Err("panic") ELSE Err("StorageError")]
    ELSE [table |-> Append(table, NewTimeEntry(last_insert_rowid(table), f)),
          ret |-> Ok(NewTimeEntry(last_insert_rowid(table), f))]

\* SELECT * FROM time_entries WHERE id = ?1: the first row, or
\* Err("Time entry not found")
db_get_time_entry(table, id) ==
    IF id \in Ids(table) THEN Ok(RowOf(table, id)) ELSE Err("NotFound")

\* UPDATE time_entries SET ... WHERE id = ?8; the number of rows changed is
\* not looked at
db_update_time_entry(table, id, f) ==
    [i \in 1 .. Len(table) |->
        IF table[i].id = id THEN NewTimeEntry(id, f) ELSE table[i]]

\* Settings::default
DefaultSettings ==
    [database_path |-> "timetracker.sqlite",
     user |-> [name |-> "John Doe", email |-> "johndoe@example.com"]]

\* save_settings as an update in place of the one settings row
db_save_settings_in_place(table, name, email, path) ==
    <<[id |-> 1, name |-> name, email |-> email, database_path |-> path]>>

\* INSERT INTO settings (name, email, database_path) VALUES (?1, ?2, ?3)
db_save_settings(table, name, email, path) ==
    Append(table, [id |-> last_insert_rowid(table), name |-> name,
                   email |-> email, database_path |-> path])

\* SELECT * FROM settings ORDER BY id DESC LIMIT 1, Settings::default() when
\* the table is empty
db_get_settings(table) ==
    IF Len(table) = 0 THEN Ok(DefaultSettings)
    ELSE LET row == RowOf(table, SetMax(Ids(table)))
         IN  Ok([database_path |-> row.database_path,
                 user |-> [name |-> row.name, email |-> row.email]])

(* ------------------- contents of the database file --------------------- *)

\* the ids of S in ascending order
SortedSeq(S) ==
    CHOOSE s \in [1 .. Cardinality(S) -> S] :
        \A i, j \in 1 .. Cardinality(S) : i < j => s[i] < s[j]

\* every table whose ids are drawn from 1 .. max and whose row of id i is
\* drawn from rows[i], in rowid order
Tables(max, rows) ==
    LET AllRows == UNION {rows[i] : i \in 1 .. max}
        Choices == {f \in [1 .. max -> AllRows] : \A i \in 1 .. max : f[i] \in rows[i]}
    IN  {[k \in 1 .. Cardinality(S) |-> f[SortedSeq(S)[k]]] :
            S \in SUBSET (1 .. max), f \in Choices}

ProjectRows ==
    [id \in 1 .. MaxInitProjectId |->
        {NewProject(id, read_line("a"), read_line("d"))}]
TaskRows ==
    [id \in 1 .. MaxInitTaskId |->
        {[id |-> id, project_id |-> p, name |-> "t\n", description |-> "t\n"] :
            p \in {1, 2}}]
TimeEntryRows ==
    [id \in 1 .. MaxInitEntryId |->
        {[id |-> id, project_id |-> 1, task_id |-> 1,
          description |-> "Time Entry", start_time |-> 0,
          end_time |-> 3661 * id, duration |-> 0, created_at |-> 0]}]

\* no Database method has been called directly
NoCall == [op |-> "none"]

\* the poller thread has read no event
NoPoll == [event |-> "none", at |-> 0, sent |-> FALSE]

\* Terminal::new: the flag is set, the channel is empty, and the thread has
\* taken its first last_event
Spawned ==
    /\ poller_running = TRUE
    /\ channel = <<>>
    /\ last_event = 0
    /\ now = 0
    /\ polled = NoPoll

\* main has not been entered: nothing is printed and nothing is being timed
Entry ==
    /\ main_pc = "entry"
    /\ ended = TRUE
    /\ main_tasks = <<>>
    /\ tasks_completed = <<>>
    /\ stdout = <<>>

\* main is not run and has no input
Unstarted == Entry /\ stdin = <<>>

(* ------------------------------- Init ---------------------------------- *)

\* App::new, on top of whatever the database file holds.  The file outlives
\* the process and has the schema of Database::new, so the three tables start
\* with any rows of that schema: rows of earlier sessions or of another writer
\* of the file.  No foreign key is declared, so a task may name a project that
\* is not in the projects table.
Init ==
    /\ page_stack = <<"Time">>
    /\ selection = 0
    /\ time_entries = <<>>
    /\ projects = <<>>
    /\ tasks = <<>>
    /\ time_entry = "None"
    /\ project = "None"
    /\ quit = FALSE
    /\ db_projects \in Tables(MaxInitProjectId, ProjectRows)
    /\ db_tasks \in Tables(MaxInitTaskId, TaskRows)
    /\ db_time_entries \in Tables(MaxInitEntryId, TimeEntryRows)
    /\ pc = "start"
    /\ pending = 0
    /\ err = "none"
    /\ cursor = -1
    /\ ev = "none"
    /\ evPage = "none"
    /\ prompted = <<>>
    /\ store_failed = FALSE
    /\ db_settings = <<>>
    /\ call = NoCall
    /\ issued = <<>>
    /\ saves = <<>>
    /\ running = TRUE
    /\ Spawned
    /\ Unstarted

(* ------------------------ the state as a value ------------------------- *)

\* The fields a render or a handler can change, and how the call ended:
\*   "render"  the handler went on to self.render()
\*   "wait"    the render went on to handle_events (blocked in event::read)
\*   "return"  handle_events returned Ok(()) without rendering again
\*   "panic"   an unwrap of None or an arithmetic overflow aborted the process
\*   "hang"    the handler never returns
\*   "storage", "io", "parse"   the call returned that error
Cur ==
    [page_stack |-> page_stack, selection |-> selection,
     time_entries |-> time_entries, projects |-> projects, tasks |-> tasks,
     quit |-> quit, db_projects |-> db_projects, db_tasks |-> db_tasks,
     db_time_entries |-> db_time_entries, cursor |-> -1,
     store_failed |-> FALSE, running |-> running, out |-> "render"]

Errors == {"storage", "io", "parse"}

(* ------------------------------ rendering ------------------------------ *)

\* the selection clamp of render_time_entries and render_projects
clamp(sel, n) == IF n = 0 THEN 0 ELSE IF sel >= n THEN n - 1 ELSE sel

\* (0usize.wrapping_sub(1)) as u16, the row a release build computes
WrappedRow == U16 - 1

render_time_entries(st) ==
    [st EXCEPT !.cursor = clamp(st.selection, Len(st.time_entries)) % U16,
               !.out = "wait"]

render_projects(st) ==
    [st EXCEPT !.cursor = clamp(st.selection, Len(st.projects)) % U16,
               !.out = "wait"]

render_settings(st) == [st EXCEPT !.out = "wait"]

render_time_entry_create_or_edit(st) == [st EXCEPT !.out = "wait"]

\* the tasks render_project_detail lists for the project of id pid
TasksOf(st, pid) == SelectSeq(st.tasks, LAMBDA t : t.project_id = pid)

\* wrap: the build has no overflow checks (release), so tasks.len() - 1 wraps
\* instead of panicking
render_project_detail(st, wrap) ==
    IF \A i \in 1 .. Len(st.projects) : st.projects[i].id # st.selection
    THEN [st EXCEPT !.out = "panic"]
    ELSE LET n == Len(TasksOf(st, st.selection))
         IN  IF st.selection >= n
             THEN IF n = 0
                  THEN IF wrap
                       THEN [st EXCEPT !.cursor = WrappedRow, !.out = "wait"]
                       ELSE [st EXCEPT !.out = "panic"]
                  ELSE [st EXCEPT !.cursor = (n - 1) % U16, !.out = "wait"]
             ELSE [st EXCEPT !.cursor = st.selection % U16, !.out = "wait"]

\* render_project_create_or_edit selecting the number of projects instead of
\* the last index
render_project_create_or_edit_len(st, name, description, store) ==
    IF ~store
    THEN [st EXCEPT !.store_failed = TRUE, !.out = "storage"]
    ELSE LET table == db_create_project(st.db_projects, read_line(name),
                                        read_line(description))
             created == Last(table)
             list == Append(st.projects, created)
         IN  [st EXCEPT !.db_projects = table,
                        !.projects = list,
                        !.selection = Len(list),
                        !.page_stack = pop(st.page_stack),
                        !.out = "render"]

\* prompts for two lines, creates the project, selects it, pops the page and
\* renders again from inside this render ("render" here is that nested call)
render_project_create_or_edit(st, name, description, store) ==
    IF ~store
    THEN [st EXCEPT !.store_failed = TRUE, !.out = "storage"]
    ELSE LET table == db_create_project(st.db_projects, read_line(name),
                                        read_line(description))
             created == Last(table)
             list == Append(st.projects, created)
         IN  [st EXCEPT !.db_projects = table,
                        !.projects = list,
                        !.selection = Len(list) - 1,
                        !.page_stack = pop(st.page_stack),
                        !.out = "render"]

\* self.project is None in every reachable state: the unwrap panics before
\* create_task is called
render_task_create_or_edit(st) ==
    IF project = "None" THEN [st EXCEPT !.out = "panic"] ELSE [st EXCEPT !.out = "wait"]

render(st, io, wrap, name, description, store) ==
    IF Len(st.page_stack) = 0 THEN [st EXCEPT !.out = "panic"]
    ELSE IF ~io THEN [st EXCEPT !.out = "io"]
    ELSE LET page == Last(st.page_stack)
         IN  CASE page = "Time" -> render_time_entries(st)
               [] page = "Projects" -> render_projects(st)
               [] page = "Settings" -> render_settings(st)
               [] page = "ProjectDetail" -> render_project_detail(st, wrap)
               [] page = "TimeEntryCreateOrEdit" -> render_time_entry_create_or_edit(st)
               [] page = "ProjectCreateOrEdit" ->
                      render_project_create_or_edit(st, name, description, store)
               [] page = "TaskCreateOrEdit" -> render_task_create_or_edit(st)

(* ------------------------- prompted duration --------------------------- *)

\* A typed line is a sequence of characters.  The lines offered at the
\* duration prompt: "4.5" and "a" ended by Enter, and "4.5" and ".0005" ended
\* by end of input (read_line then returns the text without a terminator).
Digit == [c \in {"0", "1", "2", "3", "4", "5", "6", "7", "8", "9"} |->
            CASE c = "0" -> 0 [] c = "1" -> 1 [] c = "2" -> 2 [] c = "3" -> 3
              [] c = "4" -> 4 [] c = "5" -> 5 [] c = "6" -> 6 [] c = "7" -> 7
              [] c = "8" -> 8 [] c = "9" -> 9]

HoursLines == {<<"4", ".", "5", "\n">>, <<"4", ".", "5">>,
               <<".", "0", "0", "0", "5">>, <<"a", "\n">>}

\* str::parse::<f32> on digits with at most one decimal point; it does not
\* trim, so a line terminator makes it fail
parse_f32_ok(line) ==
    /\ \A i \in 1 .. Len(line) : line[i] \in DOMAIN Digit \cup {"."}
    /\ Cardinality({i \in 1 .. Len(line) : line[i] = "."}) <= 1
    /\ \E i \in 1 .. Len(line) : line[i] \in DOMAIN Digit

RECURSIVE DigitsValue(_)
DigitsValue(ds) ==
    IF Len(ds) = 0 THEN 0 ELSE 10 * DigitsValue(Front(ds)) + Digit[Last(ds)]

RECURSIVE Pow10(_)
Pow10(k) == IF k = 0 THEN 1 ELSE 10 * Pow10(k - 1)

\* the parsed hours as a fraction num / den
HoursNum(line) == DigitsValue(SelectSeq(line, LAMBDA c : c # "."))
HoursDen(line) ==
    LET dots == {i \in 1 .. Len(line) : line[i] = "."}
    IN  IF dots = {} THEN 1 ELSE Pow10(Len(line) - CHOOSE i \in dots : TRUE)

\* (hours * 3600.0).to_string().parse::<i64>() succeeds only for a whole
\* number of seconds
seconds_parse_ok(line) == (HoursNum(line) * 3600) % HoursDen(line) = 0

\* lines read at the description prompt of TimeEntryCreateOrEdit, one of them
\* with the separator of the messages in it
DescriptionTexts == {<<"x", "\n">>, <<"x", ":", " ", "y", "\n">>}

(* ------------------------------ handlers ------------------------------- *)

\* a push that puts the page in the place of the active page
push_replace(st, page) ==
    [st EXCEPT !.page_stack = Append(Front(@), page)]

\* self.page_stack.push(page)
push(st, page) == [st EXCEPT !.page_stack = Append(@, page)]

\* delete_time_entry dropping the result of the Database call
delete_time_entry_ignored(st, store) ==
    IF \A i \in 1 .. Len(st.time_entries) : st.time_entries[i].id # st.selection
    THEN [st EXCEPT !.out = "panic"]
    ELSE LET mem == [st EXCEPT !.time_entries = RetainNotId(@, st.selection)]
         IN  IF store
             THEN [mem EXCEPT !.db_time_entries =
                                 db_delete_time_entry(@, st.selection)]
             ELSE [mem EXCEPT !.store_failed = TRUE]

\* looks the entry up by id = selection, not by index
delete_time_entry(st, store) ==
    IF \A i \in 1 .. Len(st.time_entries) : st.time_entries[i].id # st.selection
    THEN [st EXCEPT !.out = "panic"]
    ELSE LET mem == [st EXCEPT !.time_entries = RetainNotId(@, st.selection)]
         IN  IF store
             THEN [mem EXCEPT !.db_time_entries =
                                 db_delete_time_entry(@, st.selection)]
             ELSE [mem EXCEPT !.store_failed = TRUE, !.out = "storage"]

\* delete_project as it would be with a cascade to the project's tasks
delete_project_cascade(st, store) ==
    IF \A i \in 1 .. Len(st.projects) : st.projects[i].id # st.selection
    THEN [st EXCEPT !.out = "panic"]
    ELSE LET mem == [st EXCEPT !.projects = RetainNotId(@, st.selection),
                               !.tasks = SelectSeq(@, LAMBDA t :
                                             t.project_id # st.selection)]
         IN  IF store
             THEN [mem EXCEPT !.db_projects = db_delete_project(@, st.selection),
                              !.db_tasks = SelectSeq(@, LAMBDA t :
                                               t.project_id # st.selection)]
             ELSE [mem EXCEPT !.store_failed = TRUE, !.out = "storage"]

delete_project(st, store) ==
    IF \A i \in 1 .. Len(st.projects) : st.projects[i].id # st.selection
    THEN [st EXCEPT !.out = "panic"]
    ELSE LET mem == [st EXCEPT !.projects = RetainNotId(@, st.selection)]
         IN  IF store
             THEN [mem EXCEPT !.db_projects = db_delete_project(@, st.selection)]
             ELSE [mem EXCEPT !.store_failed = TRUE, !.out = "storage"]

\* handle_time_page_event with a back arm like that of the other pages
handle_time_page_event_back(st, key, store) ==
    IF Last(st.page_stack) # "Time" THEN st
    ELSE CASE key \in {"c", "e"} -> push(st, "TimeEntryCreateOrEdit")
           [] key = "d" -> delete_time_entry(st, store)
           [] key = "p" -> push(st, "Projects")
           [] key = "s" -> push(st, "Settings")
           [] key = "b" -> [st EXCEPT !.page_stack = pop(@)]
           [] key = "q" -> [st EXCEPT !.quit = TRUE]
           [] OTHER -> st

handle_time_page_event(st, key, store) ==
    IF Last(st.page_stack) # "Time" THEN st
    ELSE CASE key \in {"c", "e"} -> push(st, "TimeEntryCreateOrEdit")
           [] key = "d" -> delete_time_entry(st, store)
           [] key = "p" -> push(st, "Projects")
           [] key = "s" -> push(st, "Settings")
           [] key = "q" -> [st EXCEPT !.quit = TRUE]
           [] OTHER -> st

\* handle_project_page_event with t going where its comment says ("Go to the
\* time page")
handle_project_page_event_time(st, key, store) ==
    IF Last(st.page_stack) # "Projects" THEN st
    ELSE CASE key \in {"c", "e"} -> push(st, "ProjectCreateOrEdit")
           [] key = "d" -> delete_project(st, store)
           [] key = "t" -> push(st, "TimeEntryCreateOrEdit")
           [] key = "b" -> [st EXCEPT !.page_stack = pop(@)]
           [] key = "s" -> push(st, "Settings")
           [] key = "q" -> [st EXCEPT !.quit = TRUE]
           [] OTHER -> st

handle_project_page_event(st, key, store) ==
    IF Last(st.page_stack) # "Projects" THEN st
    ELSE CASE key \in {"c", "e"} -> push(st, "ProjectCreateOrEdit")
           [] key = "d" -> delete_project(st, store)
           [] key = "t" -> push(st, "ProjectDetail")
           [] key = "b" -> [st EXCEPT !.page_stack = pop(@)]
           [] key = "s" -> push(st, "Settings")
           [] key = "q" -> [st EXCEPT !.quit = TRUE]
           [] OTHER -> st

\* handle_settings_page_event with a back arm that also resets the selection
handle_settings_page_event_reset(st, key) ==
    IF Last(st.page_stack) # "Settings" THEN st
    ELSE CASE key = "b" -> [st EXCEPT !.page_stack = pop(@), !.selection = 0]
           [] key = "q" -> [st EXCEPT !.quit = TRUE]
           [] OTHER -> st

handle_settings_page_event(st, key) ==
    IF Last(st.page_stack) # "Settings" THEN st
    ELSE CASE key = "b" -> [st EXCEPT !.page_stack = pop(@)]
           [] key = "q" -> [st EXCEPT !.quit = TRUE]
           [] OTHER -> st

\* self.time_entry is None in every reachable state: the unwrap panics once
\* the new value has been computed
update_time_entry_from_message(st, field, value_ok) ==
    IF field = "_duration" /\ ~value_ok THEN [st EXCEPT !.out = "parse"]
    ELSE IF time_entry = "None" THEN [st EXCEPT !.out = "panic"]
    ELSE st

\* the handler taking a line that does not parse for 0 hours instead of
\* returning the parse error
handle_time_entry_create_or_edit_page_event_lenient(st, key, prompt, store, text) ==
    IF Last(st.page_stack) # "TimeEntryCreateOrEdit" THEN st
    ELSE CASE key = "e" ->
                IF ~prompt THEN [st EXCEPT !.out = "io"]
                ELSE update_time_entry_from_message(st, "_description", TRUE)
           [] key = "t" ->
                IF ~prompt THEN [st EXCEPT !.out = "io"]
                ELSE IF ~parse_f32_ok(text)
                THEN update_time_entry_from_message(st, "_duration", TRUE)
                ELSE update_time_entry_from_message(st, "_duration",
                                                    seconds_parse_ok(text))
           [] key = "s" -> [st EXCEPT !.out = "hang"]
           [] key = "d" -> delete_time_entry(st, store)
           [] key = "b" -> [st EXCEPT !.page_stack = pop(@)]
           [] key = "q" -> [st EXCEPT !.quit = TRUE]
           [] OTHER -> st

\* prompt: the terminal writes and reads of the handler succeed
\* text: the line read_line returned at the prompt of e or of t
handle_time_entry_create_or_edit_page_event(st, key, prompt, store, text) ==
    IF Last(st.page_stack) # "TimeEntryCreateOrEdit" THEN st
    ELSE CASE key = "e" ->
                IF ~prompt THEN [st EXCEPT !.out = "io"]
                ELSE update_time_entry_from_message(st, "_description", TRUE)
           [] key = "t" ->
                IF ~prompt THEN [st EXCEPT !.out = "io"]
                ELSE IF ~parse_f32_ok(text) THEN [st EXCEPT !.out = "parse"]
                ELSE update_time_entry_from_message(st, "_duration",
                                                    seconds_parse_ok(text))
           [] key = "s" -> [st EXCEPT !.out = "hang"]
           [] key = "d" -> delete_time_entry(st, store)
           [] key = "b" -> [st EXCEPT !.page_stack = pop(@)]
           [] key = "q" -> [st EXCEPT !.quit = TRUE]
           [] OTHER -> st

\* handle_page_event with the s key handled before the match on the page
handle_page_event_global(st, page, key, prompt, store, text) ==
    IF key = "q"
    THEN [st EXCEPT !.running = FALSE, !.quit = TRUE, !.out = "return"]
    ELSE IF key = "s"
    THEN [push(st, "Settings") EXCEPT !.out = "render"]
    ELSE CASE page = "Time" -> handle_time_page_event(st, key, store)
           [] page = "Projects" -> handle_project_page_event(st, key, store)
           [] page = "Settings" -> handle_settings_page_event(st, key)
           [] page = "TimeEntryCreateOrEdit" ->
                handle_time_entry_create_or_edit_page_event(st, key, prompt,
                                                            store, text)
           [] OTHER -> [st EXCEPT !.out = "return"]

\* App::handle_page_event: q first, then the handler of the page
handle_page_event(st, page, key, prompt, store, text) ==
    IF key = "q"
    THEN [st EXCEPT !.running = FALSE, !.quit = TRUE, !.out = "return"]
    ELSE CASE page = "Time" -> handle_time_page_event(st, key, store)
           [] page = "Projects" -> handle_project_page_event(st, key, store)
           [] page = "Settings" -> handle_settings_page_event(st, key)
           [] page = "TimeEntryCreateOrEdit" ->
                handle_time_entry_create_or_edit_page_event(st, key, prompt,
                                                            store, text)
           [] OTHER -> [st EXCEPT !.out = "return"]

\* io: event::read() succeeds
handle_events(st, event, io, prompt, store, text) ==
    IF ~io THEN [st EXCEPT !.out = "io"]
    ELSE IF event \notin KeyChars THEN [st EXCEPT !.out = "return"]
    ELSE IF Len(st.page_stack) = 0 THEN [st EXCEPT !.out = "panic"]
    ELSE handle_page_event(st, Last(st.page_stack), event, prompt, store, text)

(* ------------------------------ actions -------------------------------- *)

\* the fields of a state value become the next state
Apply(r) ==
    /\ page_stack' = r.page_stack
    /\ selection' = r.selection
    /\ time_entries' = r.time_entries
    /\ projects' = r.projects
    /\ tasks' = r.tasks
    /\ quit' = r.quit
    /\ db_projects' = r.db_projects
    /\ db_tasks' = r.db_tasks
    /\ db_time_entries' = r.db_time_entries
    /\ cursor' = r.cursor
    /\ store_failed' = r.store_failed
    /\ running' = r.running
    /\ UNCHANGED <<time_entry, project, db_settings, callVars, pollerVars,
                   mainVars>>

\* a call that ended with an error, a panic or a hang ends run
Ended(out) ==
    /\ pc' = (IF out \in Errors THEN "error" ELSE out)
    /\ err' = (IF out \in Errors THEN out ELSE err)
    /\ UNCHANGED pending

\* load_data without the call of get_all_projects
load_data_entries(st, store) ==
    IF ~store THEN [st EXCEPT !.store_failed = TRUE, !.out = "storage"]
    ELSE [st EXCEPT !.time_entries = st.db_time_entries,
                    !.tasks = st.db_tasks]

\* App::load_data: a bulk load of the three tables
load_data(st, store) ==
    IF ~store THEN [st EXCEPT !.store_failed = TRUE, !.out = "storage"]
    ELSE [st EXCEPT !.time_entries = st.db_time_entries,
                    !.projects = st.db_projects,
                    !.tasks = st.db_tasks]

\* App::run up to its call of render
Run ==
    /\ pc = "start"
    /\ \E fault \in {"none", "store"} :
          LET r == load_data(Cur, fault # "store")
          IN  /\ Apply(r)
              /\ IF r.out = "render"
                 THEN pc' = "render" /\ UNCHANGED <<pending, err>>
                 ELSE Ended(r.out)
    /\ ev' = "none" /\ evPage' = "none" /\ prompted' = <<>>

\* What can go wrong in one step: at most one of the calls fails, since the
\* first failure decides how the step ends.  A fault is offered only where the
\* step makes the call that it fails.
RenderFaults ==
    {"none", "io"} \cup
    (IF Last(page_stack) = "ProjectCreateOrEdit" THEN {"store"} ELSE {})

\* App::render up to its call of handle_events
Render ==
    /\ pc = "render"
    /\ \E fault \in RenderFaults :
       \E wrap \in (IF Last(page_stack) = "ProjectDetail" THEN BOOLEAN ELSE {FALSE}) :
       \E name \in (IF Last(page_stack) = "ProjectCreateOrEdit" /\ fault = "none"
                    THEN NameLines ELSE {"a"}), description \in DescriptionLines :
          LET r == render(Cur, fault # "io", wrap, name, description,
                          fault # "store")
          IN  /\ Apply(r)
              /\ CASE r.out = "wait" -> pc' = "wait" /\ UNCHANGED <<pending, err>>
                   [] r.out = "render" ->
                        pc' = "render" /\ pending' = pending + 1 /\ UNCHANGED err
                   [] OTHER -> Ended(r.out)
    /\ ev' = "none" /\ evPage' = "none" /\ prompted' = <<>>

\* the create flow stays within the bounds of the model
WithinBounds(event) ==
    (Last(page_stack) = "Projects" /\ event \in {"c", "e"})
        => (last_insert_rowid(db_projects) <= MaxId /\ pending < MaxPending)

\* App::handle_events with everything it calls.  When it returns Ok(()), so do
\* the frames above it up to the innermost render that is suspended in
\* render_project_create_or_edit; that render flushes (flush: the flush
\* succeeds) and calls handle_events again.  With no such frame run returns.
\* no event is read ("none") when event::read() fails
HandlerFaults(event) ==
    {"none"} \cup
    (IF event = "d" THEN {"store"} ELSE {}) \cup
    (IF event \in {"e", "t"} /\ Last(page_stack) = "TimeEntryCreateOrEdit"
     THEN {"prompt"} ELSE {}) \cup
    (IF pending > 0 THEN {"flush"} ELSE {})

\* handle_events reads event (none: the read fails) and dispatches it
Dispatch(event, fault, text) ==
    LET r == handle_events(Cur, event, fault # "io", fault # "prompt",
                           fault # "store", text)
        flush == fault # "flush"
    IN  /\ WithinBounds(event)
        /\ Apply(r)
        /\ ev' = event
        /\ evPage' = Last(page_stack)
        /\ prompted' = text
        /\ CASE r.out = "render" -> pc' = "render" /\ UNCHANGED <<pending, err>>
             [] r.out = "return" /\ pending = 0 ->
                  pc' = "done" /\ UNCHANGED <<pending, err>>
             [] r.out = "return" /\ pending > 0 /\ flush ->
                  pc' = "wait" /\ pending' = pending - 1 /\ UNCHANGED err
             [] r.out = "return" /\ pending > 0 /\ ~flush ->
                  pc' = "error" /\ err' = "io" /\ pending' = pending - 1
             [] OTHER -> Ended(r.out)

HandleEvents ==
    /\ pc = "wait"
    /\ \E event \in Events \cup {"none"} :
       \E fault \in (IF event = "none" THEN {"io"} ELSE HandlerFaults(event)) :
       \E text \in (IF Last(page_stack) = "TimeEntryCreateOrEdit" /\ fault = "none"
                    THEN CASE event = "t" -> HoursLines
                           [] event = "e" -> DescriptionTexts
                           [] OTHER -> {<<>>}
                    ELSE {<<>>}) :
          Dispatch(event, fault, text)

Next == Run \/ Render \/ HandleEvents

Spec == Init /\ [][Next]_vars

(* ----------------------- TimeEntry and timestamps ----------------------- *)

\* i64 division and remainder, which truncate towards zero (divisor > 0)
quot(a, b) == IF a >= 0 THEN a \div b ELSE -((-a) \div b)
rem(a, b) == a - b * quot(a, b)

\* format!("{:02}", n): at least two characters, the sign counted, padded
\* with zeros
Pad2(n) == IF 0 <= n /\ n < 10 THEN "0" \o ToString(n) ELSE ToString(n)

\* TimeEntry::duration
duration(e) == e.end_time - e.start_time

\* duration_string with the minutes taken from the whole duration
duration_string_minutes(e) ==
    Pad2(quot(duration(e), 3600)) \o ":" \o Pad2(quot(duration(e), 60))
        \o ":" \o Pad2(rem(duration(e), 60))

\* TimeEntry::duration_string
duration_string(e) ==
    Pad2(quot(duration(e), 3600)) \o ":" \o
    Pad2(quot(rem(duration(e), 3600), 60)) \o ":" \o Pad2(rem(duration(e), 60))

\* seconds of a day
DaySecs == 86400

\* to_i64 reading the time of day only
to_i64_time(dt) == IF dt.secs < 0 THEN Err("panic") ELSE Ok(dt.secs)

\* A DateTime<Utc> is a calendar day, here counted from 1970-01-01, and the
\* seconds and the fraction of a second in that day.
\* ToDateTime for i64: Utc.timestamp(0, 0) plus the seconds as a Duration.
\* `*self as u64` turns a negative number into one of at least 2^63, which
\* ChronoDuration::from_std refuses: the unwrap panics.
to_datetime(x) ==
    IF x < 0 THEN Err("panic")
    ELSE Ok([days |-> x \div DaySecs, secs |-> x % DaySecs, frac |-> 0])

\* ToI64 for DateTime<Utc>: the whole seconds since Utc.timestamp(0, 0);
\* to_std refuses a negative duration and the unwrap panics
to_i64(dt) ==
    LET since == dt.days * DaySecs + dt.secs
    IN  IF since < 0 THEN Err("panic") ELSE Ok(since)

\* the total of the Time page taken from the stored duration column
RECURSIVE total_time_stored(_)
total_time_stored(entries) ==
    IF Len(entries) = 0 THEN 0
    ELSE total_time_stored(Front(entries)) + Last(entries).duration

\* the loop `total_time += time_entry.duration()` of render_time_entries
RECURSIVE total_time(_)
total_time(entries) ==
    IF Len(entries) = 0 THEN 0
    ELSE total_time(Front(entries)) + duration(Last(entries))

\* what render_time_entries draws below the menu: one line per entry, or
\* "No time entries", and the total
time_entries_text(entries) ==
    [lines |-> IF Len(entries) = 0 THEN <<"No time entries">>
               ELSE [i \in 1 .. Len(entries) |->
                        <<entries[i].start_time, entries[i].end_time,
                          entries[i].description>>],
     total |-> total_time(entries)]

(* --------------------- direct calls of the Database -------------------- *)

\* The methods of Database called one at a time by a client that holds the
\* connection, as the App does.  fails: SQLite reports an error for the
\* statement (I/O error, locked or corrupt file); the method then returns it.

\* most calls of create_project in one run
MaxIssued == 3

\* names and descriptions passed to create_project
ProjectNames == {"a", "b"}
ProjectDescriptions == {"d"}

\* no App runs while the Database is called directly
Resting ==
    /\ page_stack = <<"Time">> /\ selection = 0
    /\ projects = <<>> /\ tasks = <<>>
    /\ time_entry = "None" /\ project = "None" /\ quit = FALSE
    /\ pc = "start" /\ pending = 0 /\ err = "none" /\ cursor = -1
    /\ ev = "none" /\ evPage = "none" /\ prompted = <<>>
    /\ store_failed = FALSE
    /\ call = NoCall /\ issued = <<>> /\ saves = <<>>
    /\ running = TRUE /\ Spawned

Idle == Resting /\ time_entries = <<>> /\ Unstarted

ProjectsInit ==
    /\ Idle
    /\ db_projects \in Tables(MaxInitProjectId, ProjectRows)
    /\ db_tasks = <<>> /\ db_time_entries = <<>> /\ db_settings = <<>>

\* Database::create_project(name, description)
CreateProject ==
    /\ last_insert_rowid(db_projects) <= MaxId
    /\ Len(issued) < MaxIssued
    /\ \E name \in ProjectNames, description \in ProjectDescriptions,
          fails \in BOOLEAN :
          LET id == last_insert_rowid(db_projects)
              args == [name |-> name, description |-> description]
          IN  IF fails
              THEN /\ call' = [op |-> "create_project", args |-> args,
                               fails |-> TRUE, ret |-> Err("StorageError")]
                   /\ UNCHANGED <<db_projects, issued>>
              ELSE /\ db_projects' = db_create_project(db_projects, name, description)
                   /\ call' = [op |-> "create_project", args |-> args,
                               fails |-> FALSE,
                               ret |-> Ok(NewProject(id, name, description))]
                   /\ issued' = Append(issued, id)
    /\ UNCHANGED <<appVars, db_tasks, db_time_entries, db_settings, saves>>

\* Database::get_project(id)
GetProject ==
    /\ \E id \in 1 .. MaxId, fails \in BOOLEAN :
          call' = [op |-> "get_project", args |-> [id |-> id], fails |-> fails,
                   ret |-> IF fails THEN Err("StorageError")
                           ELSE db_get_project(db_projects, id)]
    /\ UNCHANGED <<appVars, db_projects, db_tasks, db_time_entries,
                   db_settings, issued, saves>>

\* Database::delete_project(id)
DeleteProject ==
    /\ \E id \in 1 .. MaxId, fails \in BOOLEAN :
          /\ db_projects' = IF fails THEN db_projects
                            ELSE db_delete_project(db_projects, id)
          /\ call' = [op |-> "delete_project", args |-> [id |-> id],
                      fails |-> fails,
                      ret |-> IF fails THEN Err("StorageError") ELSE Ok("unit")]
    /\ UNCHANGED <<appVars, db_tasks, db_time_entries, db_settings, issued,
                   saves>>

ProjectsNext == CreateProject \/ GetProject \/ DeleteProject

ProjectsSpec == ProjectsInit /\ [][ProjectsNext]_vars

\* the field values passed to create_time_entry and update_time_entry
EntryFields ==
    {[project_id |-> p, task_id |-> 2, description |-> "x", start_time |-> 10,
      end_time |-> 70, duration |-> d, created_at |-> 5] :
        p \in {1, 2}, d \in {60, 61}}

TimeEntriesInit ==
    /\ Idle
    /\ db_time_entries \in Tables(MaxInitEntryId, TimeEntryRows)
    /\ db_projects = <<>> /\ db_tasks = <<>> /\ db_settings = <<>>

\* Database::create_time_entry(project_id, ..., created_at)
CreateTimeEntry ==
    /\ last_insert_rowid(db_time_entries) <= MaxId
    /\ \E f \in EntryFields, fails \in BOOLEAN, asserts \in BOOLEAN :
          LET r == db_create_time_entry(db_time_entries, f, asserts)
          IN  /\ db_time_entries' = IF fails THEN db_time_entries ELSE r.table
              /\ call' = [op |-> "create_time_entry", args |-> f,
                          fails |-> fails,
                          ret |-> IF fails THEN Err("StorageError") ELSE r.ret]
    /\ UNCHANGED <<appVars, db_projects, db_tasks, db_settings, issued, saves>>

\* Database::get_time_entry(id)
GetTimeEntry ==
    /\ \E id \in 1 .. MaxId, fails \in BOOLEAN :
          call' = [op |-> "get_time_entry", args |-> [id |-> id],
                   fails |-> fails,
                   ret |-> IF fails THEN Err("StorageError")
                           ELSE db_get_time_entry(db_time_entries, id)]
    /\ UNCHANGED <<appVars, db_projects, db_tasks, db_time_entries,
                   db_settings, issued, saves>>

\* Database::update_time_entry(id, project_id, ..., created_at)
UpdateTimeEntry ==
    /\ \E id \in 1 .. MaxId, f \in EntryFields, fails \in BOOLEAN :
          /\ db_time_entries' = IF fails THEN db_time_entries
                                ELSE db_update_time_entry(db_time_entries, id, f)
          /\ call' = [op |-> "update_time_entry",
                      args |-> NewTimeEntry(id, f), fails |-> fails,
                      ret |-> IF fails THEN Err("StorageError") ELSE Ok("unit")]
    /\ UNCHANGED <<appVars, db_projects, db_tasks, db_settings, issued, saves>>

\* Database::delete_time_entry(id)
DeleteTimeEntry ==
    /\ \E id \in 1 .. MaxId, fails \in BOOLEAN :
          /\ db_time_entries' = IF fails THEN db_time_entries
                                ELSE db_delete_time_entry(db_time_entries, id)
          /\ call' = [op |-> "delete_time_entry", args |-> [id |-> id],
                      fails |-> fails,
                      ret |-> IF fails THEN Err("StorageError") ELSE Ok("unit")]
    /\ UNCHANGED <<appVars, db_projects, db_tasks, db_settings, issued, saves>>

TimeEntriesNext ==
    CreateTimeEntry \/ GetTimeEntry \/ UpdateTimeEntry \/ DeleteTimeEntry

TimeEntriesSpec == TimeEntriesInit /\ [][TimeEntriesNext]_vars

\* most calls of save_settings in one run that return Ok
MaxSaves == 3

\* names and emails passed to save_settings
UserNames == {"Ann", "Bob"}
UserEmails == {"a@x", "b@x"}

\* Connection::path of the connection App::new opens
ConnectionPath == DefaultSettings.database_path

\* Database::new on a file that does not exist yet
SettingsInit ==
    /\ Idle
    /\ db_settings = <<>>
    /\ db_projects = <<>> /\ db_tasks = <<>> /\ db_time_entries = <<>>

\* Database::save_settings(name, email)
SaveSettings ==
    /\ Len(saves) < MaxSaves
    /\ \E name \in UserNames, email \in UserEmails, fails \in BOOLEAN :
          /\ db_settings' = IF fails THEN db_settings
                            ELSE db_save_settings(db_settings, name, email,
                                                  ConnectionPath)
          /\ saves' = IF fails THEN saves
                      ELSE Append(saves, [name |-> name, email |-> email])
          /\ call' = [op |-> "save_settings",
                      args |-> [name |-> name, email |-> email],
                      fails |-> fails,
                      ret |-> IF fails THEN Err("StorageError") ELSE Ok("unit")]
    /\ UNCHANGED <<appVars, db_projects, db_tasks, db_time_entries, issued>>

\* Database::get_settings()
GetSettings ==
    /\ \E fails \in BOOLEAN :
          call' = [op |-> "get_settings", args |-> <<>>, fails |-> fails,
                   ret |-> IF fails THEN Err("StorageError")
                           ELSE db_get_settings(db_settings)]
    /\ UNCHANGED <<appVars, db_projects, db_tasks, db_time_entries,
                   db_settings, issued, saves>>

SettingsNext == SaveSettings \/ GetSettings

SettingsSpec == SettingsInit /\ [][SettingsNext]_vars

(* ------------------ calls on time entries and timestamps --------------- *)

\* most time entries in memory
MaxEntries == 2

\* start and end times of the entries: seconds since 1970-01-01, with -1 an
\* end_time that is not a time
StartTimes == {0, 10}
EndTimes == {-1, 3661, 86400, 360010}

\* the time entry lists: entries with any of these times and with a stored
\* duration that is not end_time - start_time
EntryLists ==
    UNION {[1 .. n ->
              {[id |-> 0, project_id |-> 1, task_id |-> 1,
                description |-> "Time Entry", start_time |-> b,
                end_time |-> e, duration |-> d, created_at |-> 0] :
                  b \in StartTimes, e \in EndTimes, d \in {0, 7}}] :
           n \in 0 .. MaxEntries}

EntriesInit ==
    /\ Resting /\ Unstarted
    /\ time_entries \in EntryLists
    /\ db_projects = <<>> /\ db_tasks = <<>> /\ db_time_entries = <<>>
    /\ db_settings = <<>>

\* what no call on the entries changes
EntriesFrame ==
    UNCHANGED <<page_stack, selection, time_entries, projects, tasks,
                time_entry, project, quit, pc, pending, err, ev, evPage,
                prompted, store_failed, db_projects, db_tasks,
                db_time_entries, db_settings, issued, saves, running,
                pollerVars, mainVars>>

\* App::render_time_entries on the entries in memory
RenderTimeEntries ==
    /\ call' = [op |-> "render_time_entries", args |-> <<>>, fails |-> FALSE,
                ret |-> Ok(time_entries_text(time_entries))]
    /\ cursor' = render_time_entries(Cur).cursor
    /\ EntriesFrame

\* TimeEntry::duration_string on one of the entries
DurationString ==
    /\ \E i \in 1 .. Len(time_entries) :
          call' = [op |-> "duration_string", args |-> time_entries[i],
                   fails |-> FALSE,
                   ret |-> Ok(duration_string(time_entries[i]))]
    /\ UNCHANGED cursor
    /\ EntriesFrame

\* to_datetime on the start or the end time of one of the entries
ToDateTime ==
    /\ \E i \in 1 .. Len(time_entries) :
       \E x \in {time_entries[i].start_time, time_entries[i].end_time} :
          call' = [op |-> "to_datetime", args |-> [x |-> x], fails |-> FALSE,
                   ret |-> to_datetime(x)]
    /\ UNCHANGED cursor
    /\ EntriesFrame

\* to_i64 on the DateTime that to_datetime returned
ToI64 ==
    /\ call.op = "to_datetime" /\ call.ret.ok
    /\ call' = [op |-> "to_i64", args |-> [dt |-> call.ret.value, x |-> call.args.x],
                fails |-> FALSE, ret |-> to_i64(call.ret.value)]
    /\ UNCHANGED cursor
    /\ EntriesFrame

EntriesNext == RenderTimeEntries \/ DurationString \/ ToDateTime \/ ToI64

EntriesSpec == EntriesInit /\ [][EntriesNext]_vars

(* ------------------------- the poller thread --------------------------- *)

\* The thread that Terminal::new spawns, next to the App.  Both the thread
\* and App::handle_events call event::read(), so an event of the terminal is
\* read by one of the two.  One iteration of the thread's loop takes no time
\* on the clock of the model.

\* most events the model lets the thread send
MaxChannel == 2

\* the ms below which the thread drops an event
Throttle == 100

\* what the terminal delivers: the quit key, another key
TerminalEvents == {"q", "x"}

\* the ms of one tick of the clock: the times of the model are 0, 50, 100,
\* 150, ... ms after the start of the thread
TickMs == 50

\* the throttle with a comparison that lets an event through at 100 ms
passes_throttle_at(t, last) == t - last >= Throttle

\* Instant::now().duration_since(last_event).as_millis() > 100
passes_throttle(t, last) == t - last > Throttle

\* the loop body with the quit key looked at only for a forwarded event
poll_forwarded(p, event, t) ==
    IF passes_throttle(t, p.last_event)
    THEN [running |-> IF event = "q" THEN FALSE ELSE p.running,
          channel |-> Append(p.channel, [event |-> event, at |-> t]),
          last_event |-> t]
    ELSE p

\* the body of the thread's loop for an event that event::read() returned at
\* time t, on the thread's flag, channel and last_event
poll(p, event, t) ==
    LET flag == IF event = "q" THEN FALSE ELSE p.running
    IN  IF passes_throttle(t, p.last_event)
        THEN [running |-> flag,
              channel |-> Append(p.channel, [event |-> event, at |-> t]),
              last_event |-> t]
        ELSE [running |-> flag, channel |-> p.channel,
              last_event |-> p.last_event]

\* Database::new on a file that does not exist yet, App::new
PollerInit ==
    /\ Idle
    /\ db_projects = <<>> /\ db_tasks = <<>> /\ db_time_entries = <<>>
    /\ db_settings = <<>>

\* what the poller thread and the clock leave alone
PollerFrame ==
    UNCHANGED <<page_stack, selection, time_entries, projects, tasks,
                time_entry, project, quit, pc, pending, err, cursor, ev,
                evPage, prompted, store_failed, running, db_projects, db_tasks,
                db_time_entries, db_settings, callVars, mainVars>>

\* the last time of the clock: long enough for MaxChannel sends and a read
\* after them
MaxNow == (3 * MaxChannel + 1) * TickMs

\* time passes
Tick ==
    /\ now + TickMs <= MaxNow
    /\ now' = now + TickMs
    /\ UNCHANGED <<poller_running, channel, last_event, polled>>
    /\ PollerFrame

\* one iteration of the thread's loop in which event::poll and event::read
\* return an event; the thread lives as long as run has not returned
PollerRead ==
    /\ poller_running
    /\ pc \in {"start", "render", "wait", "hang"}
    /\ \E event \in TerminalEvents :
          LET p == poll([running |-> poller_running, channel |-> channel,
                         last_event |-> last_event], event, now)
          IN  /\ Len(p.channel) <= MaxChannel
              /\ poller_running' = p.running
              /\ channel' = p.channel
              /\ last_event' = p.last_event
              /\ polled' = [event |-> event, at |-> now,
                            sent |-> Len(p.channel) > Len(channel)]
    /\ UNCHANGED now
    /\ PollerFrame

\* App::handle_events reads the event itself and dispatches it
NavigatorRead ==
    /\ pc = "wait"
    /\ \E event \in TerminalEvents : Dispatch(event, "none", <<>>)

PollerNext == Run \/ Render \/ NavigatorRead \/ PollerRead \/ Tick

PollerSpec == PollerInit /\ [][PollerNext]_vars

(* -------------------------------- main --------------------------------- *)

\* main of src/main.rs: the command-line tracker loop.  It runs without the
\* App.  Task, Timer and show_timer, which main imports from the library, are
\* defined neither in lib.rs nor in main.rs: a Task is its name, and
\* show_timer is a call that returns, after reading a line of input or none.

\* most lines of input
MaxLines == 3

Whitespace == {" ", "\n"}

\* the lines typed: words and whitespace characters, with the line feed
InputLines ==
    {<<"a", "\n">>, <<"stop", "\n">>, <<"exit", "\n">>, <<" ", "exit", "\n">>}

\* what stdin holds: any lines, then the end of input
Inputs == UNION {[1 .. n -> InputLines] : n \in 0 .. MaxLines}

RECURSIVE trim_start(_)
trim_start(l) ==
    IF l # <<>> /\ Head(l) \in Whitespace THEN trim_start(Tail(l)) ELSE l

RECURSIVE trim_end(_)
trim_end(l) ==
    IF l # <<>> /\ Last(l) \in Whitespace THEN trim_end(Front(l)) ELSE l

\* str::trim
trim(l) == trim_end(trim_start(l))

\* stdin().read_line(&mut task_name) on an empty String: the next line, or
\* nothing at the end of input
stdin_read_line(in) == IF in = <<>> THEN <<>> ELSE Head(in)

\* one print, with the task name it holds
Printed(text, name) == [text |-> text, task |-> name]

Welcome == Printed("Welcome to the time tracker!", <<>>)
PromptLine ==
    Printed("Enter a task name to start tracking it. Exit the program by typing 'exit'.",
            <<>>)
Caret == Printed("> ", <<>>)
Goodbye == Printed("Goodbye!", <<>>)
TasksCompleted == Printed("Tasks completed:", <<>>)

\* Task::new
NewTask(name) == [name |-> name]

\* the state of main as a value
Main ==
    [pc |-> main_pc, ended |-> ended, tasks |-> main_tasks,
     tasks_completed |-> tasks_completed, stdin |-> stdin, stdout |-> stdout]

\* the branch of the loop for ended = true with the prompt printed only
\* before the first task
main_prompt_once(m) ==
    LET task_name == trim(stdin_read_line(m.stdin))
        printed == m.stdout \o (IF m.tasks_completed = <<>>
                                THEN <<PromptLine, Caret>> ELSE <<Caret>>)
        rest == IF m.stdin = <<>> THEN <<>> ELSE Tail(m.stdin)
    IN  IF task_name = <<"exit">>
        THEN [m EXCEPT !.stdin = rest, !.stdout = printed, !.pc = "exited"]
        ELSE [m EXCEPT !.stdin = rest,
                       !.tasks = Append(@, NewTask(task_name)),
                       !.ended = FALSE,
                       !.stdout = Append(printed,
                                         Printed("Started task", task_name)),
                       !.pc = "timer"]

\* the branch of the loop for ended = true, up to the call of show_timer
main_prompt(m) ==
    LET task_name == trim(stdin_read_line(m.stdin))
        printed == m.stdout \o <<PromptLine, Caret>>
        rest == IF m.stdin = <<>> THEN <<>> ELSE Tail(m.stdin)
    IN  IF task_name = <<"exit">>
        THEN [m EXCEPT !.stdin = rest, !.stdout = printed, !.pc = "exited"]
        ELSE [m EXCEPT !.stdin = rest,
                       !.tasks = Append(@, NewTask(task_name)),
                       !.ended = FALSE,
                       !.stdout = Append(printed,
                                         Printed("Started task", task_name)),
                       !.pc = "timer"]

\* show_timer: it returns; reads says whether it read a line of input
show_timer(m, reads) ==
    [m EXCEPT !.stdin = IF reads /\ @ # <<>> THEN Tail(@) ELSE @,
              !.pc = "loop"]

\* the branch of the loop for ended = false without the assignment to ended
main_stop_timing(m) ==
    IF m.tasks = <<>> THEN [m EXCEPT !.pc = "panic"]
    ELSE LET task == Last(m.tasks)
         IN  [m EXCEPT !.tasks = Front(@),
                       !.tasks_completed = Append(@, task.name),
                       !.stdout = Append(@, Printed("completed", task.name))]

\* the branch of the loop for ended = false
main_stop(m) ==
    IF m.tasks = <<>> THEN [m EXCEPT !.pc = "panic"]
    ELSE LET task == Last(m.tasks)
         IN  [m EXCEPT !.tasks = Front(@),
                       !.ended = TRUE,
                       !.tasks_completed = Append(@, task.name),
                       !.stdout = Append(@, Printed("completed", task.name))]

\* the listing of tasks_completed
Listing(names) == [i \in 1 .. Len(names) |-> Printed("listing", names[i])]

\* main after the loop with the listing printed last
main_exit_listing_last(m) ==
    [m EXCEPT !.stdout = @ \o <<TasksCompleted, Goodbye>>
                           \o Listing(m.tasks_completed),
              !.pc = "done"]

\* main after the loop
main_exit(m) ==
    [m EXCEPT !.stdout = @ \o <<TasksCompleted>> \o Listing(m.tasks_completed)
                           \o <<Goodbye>>,
              !.pc = "done"]

\* the fields of a state value of main become the next state
MainApply(m) ==
    /\ main_pc' = m.pc
    /\ ended' = m.ended
    /\ main_tasks' = m.tasks
    /\ tasks_completed' = m.tasks_completed
    /\ stdin' = m.stdin
    /\ stdout' = m.stdout
    /\ UNCHANGED <<page_stack, selection, time_entries, projects, tasks,
                   time_entry, project, quit, pc, pending, err, cursor, ev,
                   evPage, prompted, store_failed, running, db_projects,
                   db_tasks, db_time_entries, db_settings, callVars,
                   pollerVars>>

\* the process with its input, before main
MainInit ==
    /\ Resting /\ time_entries = <<>>
    /\ db_projects = <<>> /\ db_tasks = <<>> /\ db_time_entries = <<>>
    /\ db_settings = <<>>
    /\ Entry
    /\ stdin \in Inputs

\* main up to the loop
Enter ==
    /\ main_pc = "entry"
    /\ MainApply([Main EXCEPT !.stdout = <<Welcome>>, !.ended = TRUE,
                              !.tasks = <<>>, !.tasks_completed = <<>>,
                              !.pc = "loop"])

\* an iteration of the loop with ended = true; at the end of input the
\* iterations go on, and the model follows them for MaxLines tasks
Prompt ==
    /\ main_pc = "loop" /\ ended
    /\ Len(tasks_completed) <= MaxLines
    /\ MainApply(main_prompt(Main))

ShowTimer ==
    /\ main_pc = "timer"
    /\ \E reads \in BOOLEAN : MainApply(show_timer(Main, reads))

\* an iteration of the loop with ended = false
Stop ==
    /\ main_pc = "loop" /\ ~ended
    /\ MainApply(main_stop(Main))

\* main after the loop
Exit ==
    /\ main_pc = "exited"
    /\ MainApply(main_exit(Main))

MainNext == Enter \/ Prompt \/ ShowTimer \/ Stop \/ Exit

MainSpec == MainInit /\ [][MainNext]_vars

\* the process is scheduled: a step of main that can be taken is taken
MainFairSpec == MainSpec /\ WF_vars(MainNext)

(* ------------------------------ typing --------------------------------- *)

TypeOK ==
    /\ page_stack \in Seq(Pages)
    /\ selection \in Nat
    /\ quit \in BOOLEAN
    /\ pc \in {"start", "render", "wait", "done", "error", "panic", "hang"}
    /\ pending \in 0 .. MaxPending
    /\ err \in Errors \cup {"none"}
    /\ cursor \in -1 .. U16 - 1
    /\ ev \in Events \cup {"none"}

(* ----------------------- vocabulary of the claims ----------------------- *)

Top == Last(page_stack)

\* the step is a handle_events call that read a key
KeyStep == pc = "wait" /\ ev' \in KeyChars

\* the step is a render call
RenderStep == pc = "render"

\* the step ended in an error, a panic or a hang
Failed(p) == p \in {"error", "panic", "hang"}

\* the push rows of the transition table
PushTarget(page, key) ==
    CASE page = "Time" /\ key \in {"c", "e"} -> "TimeEntryCreateOrEdit"
      [] page = "Time" /\ key = "p" -> "Projects"
      [] page = "Time" /\ key = "s" -> "Settings"
      [] page = "Projects" /\ key \in {"c", "e"} -> "ProjectCreateOrEdit"
      [] page = "Projects" /\ key = "t" -> "ProjectDetail"
      [] page = "Projects" /\ key = "s" -> "Settings"
      [] OTHER -> "none"

\* everything but the page stack and the observation variables
Data == <<selection, time_entries, projects, tasks, time_entry, project,
          db_projects, db_tasks, db_time_entries>>

(* -------------------------------- C1 ----------------------------------- *)

\* C1: in every reachable state the page stack is non-empty, its bottom
\* element is Time and Time occurs nowhere else on it.  Time is therefore the
\* active page only when the stack is [Time], so a handler that popped while
\* Time is active would leave the stack empty: none does.
C1_StackFloor ==
    /\ Len(page_stack) >= 1
    /\ page_stack[1] = "Time"
    /\ \A i \in 2 .. Len(page_stack) : page_stack[i] # "Time"

\* a back key has brought the stack down to the floor
C1_Witness ==
    /\ ev = "b" /\ pc = "render"
    /\ page_stack = <<"Time">>

(* -------------------------------- C2 ----------------------------------- *)

\* C2: once q has been handled the quit flag is true, no further input event
\* is read and run has returned to its caller.
C2_QuitEndsRun == quit => pc \in {"done", "error"}

(* -------------------------------- C4 ----------------------------------- *)

\* C4: run returns normally only in a state where the quit flag is true.
C4_ReturnsOnlyOnQuit == pc = "done" => quit

(* -------------------------------- C3 ----------------------------------- *)

\* the keys the handler of a page has an arm for (q is handled for all pages)
Recognised(page) ==
    CASE page = "Time" -> {"c", "e", "d", "p", "s"}
      [] page = "Projects" -> {"c", "e", "d", "t", "b", "s"}
      [] page = "Settings" -> {"b"}
      [] page = "TimeEntryCreateOrEdit" -> {"e", "t", "s", " ", "a", "d", "b"}
      [] OTHER -> {}

\* C3: on every page, handling a key other than q that does not fail is
\* followed by a render of the page on top of the stack, and a key the page
\* does not recognise changes neither the page stack nor the data.
C3_AlwaysRendersAgain ==
    [][(KeyStep /\ ev' # "q" /\ ~Failed(pc'))
          => /\ pc' = "render"
             /\ (ev' \notin Recognised(Top)
                    => UNCHANGED <<page_stack, Data>>)]_vars

(* -------------------------------- C5 ----------------------------------- *)

BackPages == {"Projects", "Settings", "TimeEntryCreateOrEdit"}

\* C6: pushing a page P of BackPages changes nothing but the stack, rendering
\* P changes neither the stack nor the data, and b on P removes exactly the
\* top of the stack and changes nothing else: a push of P followed by b gives
\* back the stack, the selection, the collections and the Store.
C6_BackRestores ==
    [][/\ (KeyStep /\ PushTarget(Top, ev') \in BackPages)
            => /\ page_stack' = Append(page_stack, PushTarget(Top, ev'))
               /\ UNCHANGED Data
       /\ (RenderStep /\ Top \in BackPages /\ ~Failed(pc'))
            => UNCHANGED <<page_stack, Data>>
       /\ (KeyStep /\ ev' = "b" /\ Top \in BackPages)
            => /\ page_stack' = Front(page_stack)
               /\ pc' = "render"
               /\ UNCHANGED Data]_vars

\* p on Time followed by b on Projects: the stack is [Time] again
C6_Witness ==
    /\ pc = "render" /\ ev = "b" /\ evPage = "Projects"
    /\ page_stack = <<"Time">>

(* -------------------------------- C7 ----------------------------------- *)

ListPages == {"Time", "Projects", "ProjectDetail"}

\* the list a list page renders
Rendered ==
    CASE Top = "Time" -> time_entries
      [] Top = "Projects" -> projects
      [] Top = "ProjectDetail" -> TasksOf(Cur, selection)

\* C7: a render of a list page whose list exists (on ProjectDetail: the
\* selected project is found) does not fail and puts the cursor on row 0 for
\* an empty list and on row min(selection, n - 1) for a list of length n.
C7_ClampedCursor ==
    [][(RenderStep /\ Top \in ListPages /\ pc' # "error"
          /\ (Top = "ProjectDetail" => selection \in Ids(projects)))
          => /\ pc' = "wait"
             /\ cursor' = clamp(selection, Len(Rendered))]_vars

(* -------------------------------- C8 ----------------------------------- *)

\* the list d works on
DeleteList(page) == IF page = "Time" THEN time_entries ELSE projects

\* C8: d on Time or Projects with a non-empty list, when the Store does not
\* fail, removes exactly the entity at the clamped selection index, keeps the
\* page stack and goes on to render.
C8_DeletesSelectedRow ==
    [][(KeyStep /\ ev' = "d" /\ Top \in {"Time", "Projects"}
          /\ Len(DeleteList(Top)) > 0 /\ pc' # "error")
          => /\ pc' = "render"
             /\ page_stack' = page_stack
             /\ LET i == clamp(selection, Len(DeleteList(Top))) + 1
                IN  IF Top = "Time"
                    THEN /\ time_entries' = RemoveAt(time_entries, i)
                         /\ projects' = projects
                    ELSE /\ projects' = RemoveAt(projects, i)
                         /\ time_entries' = time_entries]_vars

(* -------------------------------- C9 ----------------------------------- *)

\* C9: when a delete handler on Time or Projects has finished, with or
\* without a Store failure, the in-memory collection and the Store table hold
\* the same entities.
C9_RemovedTogether ==
    (ev = "d" /\ evPage \in {"Time", "Projects"} /\ pc # "panic")
        => /\ Ids(projects) = Ids(db_projects)
           /\ Ids(time_entries) = Ids(db_time_entries)

(* -------------------------------- C10 ---------------------------------- *)

\* C10: d on Projects removes at most the selected project row, from the
\* table and from the in-memory projects, and leaves every task and every
\* time entry as it was, in the Store and in memory.
C10_NoCascade ==
    [][(KeyStep /\ ev' = "d" /\ Top = "Projects")
          => /\ UNCHANGED <<tasks, time_entries, db_tasks, db_time_entries>>
             /\ db_projects' \in {db_projects, RetainNotId(db_projects, selection)}
             /\ projects' \in {projects, RetainNotId(projects, selection)}]_vars

\* a project has been deleted that a stored task and a stored time entry
\* still reference
C10_Witness ==
    /\ pc = "render" /\ ev = "d" /\ evPage = "Projects"
    /\ selection \notin Ids(db_projects)
    /\ \E i \in 1 .. Len(db_tasks) : db_tasks[i].project_id = selection
    /\ \E i \in 1 .. Len(db_time_entries) : db_time_entries[i].project_id = selection
    /\ \E i \in 1 .. Len(tasks) : tasks[i].project_id = selection

\* C16: c or e on Projects pushes ProjectCreateOrEdit and renders it; when
\* that render gets its two lines and the Store creates the project, it ends,
\* before any further event is read, with the new project in the Store and
\* last in the in-memory list of now n + 1 projects, selection = n, the page
\* stack as it was when the key was pressed, and a render of Projects.
C16_ProjectCreateFlow ==
    [][/\ (KeyStep /\ Top = "Projects" /\ ev' \in {"c", "e"}) =>
            /\ page_stack' = Append(page_stack, "ProjectCreateOrEdit")
            /\ pc' = "render"
       /\ (RenderStep /\ Top = "ProjectCreateOrEdit" /\ ~Failed(pc')) =>
            LET n == Len(projects)
            IN  /\ Len(projects') = n + 1
                /\ SubSeq(projects', 1, n) = projects
                /\ Last(projects').id \notin Ids(db_projects)
                /\ db_projects' = Append(db_projects, Last(projects'))
                /\ selection' = n
                /\ page_stack' = Front(page_stack)
                /\ Last(page_stack') = "Projects"
                /\ pc' = "render"]_vars

\* the create flow has just added a second project: Projects is about to be
\* rendered from inside the create render
C16_Witness ==
    /\ pc = "render" /\ pending > 0 /\ ev = "none"
    /\ Top = "Projects"
    /\ Len(projects) = 2 /\ selection = 1
    /\ Last(projects) = Last(db_projects)

\* C17: c or e on ProjectDetail pushes TaskCreateOrEdit and renders it; when
\* that render does not fail it ends with one more in-memory task, the new
\* one last and belonging to the current project, selection at the new last
\* index, the page stack popped back to ProjectDetail, and a render.
C17_TaskCreateFlow ==
    [][/\ (KeyStep /\ Top = "ProjectDetail" /\ ev' \in {"c", "e"}) =>
            /\ page_stack' = Append(page_stack, "TaskCreateOrEdit")
            /\ pc' = "render"
       /\ (RenderStep /\ Top = "TaskCreateOrEdit" /\ ~Failed(pc')) =>
            /\ Len(tasks') = Len(tasks) + 1
            /\ Last(tasks') = Last(db_tasks')
            /\ selection' = Len(tasks)
            /\ page_stack' = Front(page_stack)
            /\ Last(page_stack') = "ProjectDetail"
            /\ pc' = "render"]_vars

\* C18: when a Database call fails while the data is loaded, in a render or
\* in a handler, run returns the storage error; and once run has returned an
\* error nothing more happens: no event is read, nothing is retried.
C18_StoreFailureEndsRun ==
    [][/\ store_failed' => (pc' = "error" /\ err' = "storage")
       /\ pc # "error"]_vars

\* the Database delete of a d key failed below a suspended create render
C18_Witness ==
    /\ store_failed /\ ev = "d" /\ pending > 0
    /\ pc = "error" /\ err = "storage"

\* a line without its terminator
Chomp(l) == IF Len(l) > 0 /\ Last(l) = "\n" THEN Front(l) ELSE l

\* the line is a decimal number of hours
DecimalHours(l) == parse_f32_ok(Chomp(l))

\* the handler of TimeEntryCreateOrEdit read key and then a line at its prompt
PromptStep(key) ==
    /\ KeyStep /\ Top = "TimeEntryCreateOrEdit" /\ ev' = key
    /\ prompted' # <<>>

\* the step left the edited time entry, with its new field, in the Store and
\* the page active
Persisted ==
    /\ pc' = "render"
    /\ page_stack' = page_stack
    /\ time_entry' # "None"
    /\ time_entry'.id \in Ids(db_time_entries')
    /\ RowOf(db_time_entries', time_entry'.id) = time_entry'

\* C19: t on TimeEntryCreateOrEdit followed by a line that is a decimal number
\* of hours h sets the duration of the edited time entry to h * 3600 seconds,
\* persists the entry and stays on the page, rendered again.
C19_HoursSetDuration ==
    [][(PromptStep("t") /\ DecimalHours(prompted')) =>
          /\ Persisted
          /\ time_entry'.duration * HoursDen(Chomp(prompted')) =
                 HoursNum(Chomp(prompted')) * 3600]_vars

\* C20: e on TimeEntryCreateOrEdit followed by a line L sets the description
\* of the edited time entry to L, persists the entry with its other fields
\* unchanged and stays on the page, rendered again.
C20_LineSetsDescription ==
    [][PromptStep("e") =>
          /\ Persisted
          /\ time_entry # "None"
          /\ time_entry' = [time_entry EXCEPT !.description = Chomp(prompted')]]_vars

\* C21: when the line read at the duration prompt does not parse as a number
\* of hours, the handler returns a parse error that run returns, and the step
\* changes neither the page stack, nor the in-memory data, nor the Store.
C21_ParseErrorChangesNothing ==
    [][(PromptStep("t") /\ ~parse_f32_ok(prompted')) =>
          /\ pc' = "error" /\ err' = "parse"
          /\ UNCHANGED Data
          /\ UNCHANGED page_stack]_vars

\* run has returned the parse error of the line "a" typed at the prompt
C21_Witness ==
    /\ ev = "t" /\ evPage = "TimeEntryCreateOrEdit"
    /\ prompted = <<"a", "\n">>
    /\ pc = "error" /\ err = "parse"

\* C30: on every page a key t that is handled without a failure leaves the
\* Time page on top of the stack, p the Projects page and s the Settings page,
\* and q sets the quit flag.
C30_GlobalKeys ==
    [][(KeyStep /\ ~Failed(pc')) =>
          /\ ev' = "t" => Last(page_stack') = "Time"
          /\ ev' = "p" => Last(page_stack') = "Projects"
          /\ ev' = "s" => Last(page_stack') = "Settings"
          /\ ev' = "q" => quit']_vars

(* -------------------------- C31, C38: the stack ------------------------- *)

\* the page a child page is opened from, none for a page that is no child
ParentOf(page) ==
    CASE page \in {"ProjectDetail", "ProjectCreateOrEdit"} -> "Projects"
      [] page = "TimeEntryCreateOrEdit" -> "Time"
      [] page = "TaskCreateOrEdit" -> "ProjectDetail"
      [] OTHER -> "none"

\* C31: in every reachable state each child page on the page stack lies
\* directly above its parent page: ProjectDetail and ProjectCreateOrEdit
\* above Projects, TimeEntryCreateOrEdit above Time, TaskCreateOrEdit above
\* ProjectDetail.
C31_ChildAboveParent ==
    \A i \in 1 .. Len(page_stack) :
        ParentOf(page_stack[i]) # "none" =>
            i > 1 /\ page_stack[i - 1] = ParentOf(page_stack[i])

\* t on Projects has opened ProjectDetail
C31_Witness ==
    /\ ev = "t" /\ evPage = "Projects"
    /\ page_stack = <<"Time", "Projects", "ProjectDetail">>

\* C38: the page stack is always [Time], [Time, X] with X one of
\* TimeEntryCreateOrEdit, Projects, Settings, or [Time, Projects, Y] with Y
\* one of ProjectCreateOrEdit, ProjectDetail, Settings: never more than three
\* pages, and no page twice.
C38_StackShapes ==
    \/ page_stack = <<"Time">>
    \/ \E X \in {"TimeEntryCreateOrEdit", "Projects", "Settings"} :
          page_stack = <<"Time", X>>
    \/ \E Y \in {"ProjectCreateOrEdit", "ProjectDetail", "Settings"} :
          page_stack = <<"Time", "Projects", Y>>

\* s on Projects has opened Settings as the third page, and s was pressed
\* again there
C38_Witness ==
    /\ ev = "s" /\ evPage = "Settings"
    /\ page_stack = <<"Time", "Projects", "Settings">>

(* ------------------------- C36: memory and Store ------------------------ *)

\* run is past load_data and no call has ended in an error, a panic or a hang
Completed == pc \in {"render", "wait", "done"}

\* C36: after load_data and after every handler or render that completed
\* without error, the projects and time_entries held in memory are the rows
\* of the projects and time_entries tables: same ids, same fields, same
\* order.
C36_MemoryIsStore ==
    Completed => projects = db_projects /\ time_entries = db_time_entries

\* d on Projects has removed a project and left another
C36_Witness ==
    /\ ev = "d" /\ evPage = "Projects" /\ pc = "render"
    /\ projects # <<>>

(* ------------------------- C35: ProjectDetail --------------------------- *)

\* C35: a render of ProjectDetail with a non-empty project list does not
\* abort, whatever the selection and the ids of the projects are.
C35_DetailRenders ==
    [][(RenderStep /\ Top = "ProjectDetail" /\ projects # <<>>)
          => pc' # "panic"]_vars

(* ----------------------- C37: handlers terminate ------------------------ *)

\* C37: no handler invocation runs forever: no step leaves the program in a
\* handler that never returns.
C37_HandlersReturn == pc # "hang"

(* ------------------------- claims on the Database ----------------------- *)

\* the last direct call was op and its statement was not made to fail
Called(op) == call.op = op /\ ~call.fails

\* C11: create_project returns a project with a positive id and the name and
\* description it was given, get_project on that id returns the same project,
\* and once delete_project was called on an id, get_project on that id fails
\* with NotFound.
C11_ProjectRoundTrip ==
    /\ Called("create_project") =>
          /\ call.ret.ok
          /\ call.ret.value.id > 0
          /\ call.ret.value.name = call.args.name
          /\ call.ret.value.description = call.args.description
          /\ db_get_project(db_projects, call.ret.value.id) = call.ret
    /\ Called("delete_project") =>
          /\ call.ret.ok
          /\ db_get_project(db_projects, call.args.id) = Err("NotFound")
    /\ (Called("get_project") /\ call.args.id \notin Ids(db_projects)) =>
          call.ret = Err("NotFound")

\* a project that create_project returned has been deleted, and get_project on
\* its id has failed
C11_Witness ==
    /\ Called("get_project")
    /\ call.ret = Err("NotFound")
    /\ \E i \in 1 .. Len(issued) : issued[i] = call.args.id

\* C13: the ids that create_project returns are strictly increasing in call
\* order, so that no id is returned a second time.
C13_IdsNeverReused ==
    \A i, j \in 1 .. Len(issued) : i < j => issued[i] < issued[j]

\* C12: update_time_entry on an id that is not in the table fails with
\* NotFound; on an id that is in the table it succeeds and the row of that id
\* then holds every field it was given.
C12_UpdateChecksId ==
    Called("update_time_entry") =>
        IF call.args.id \in Ids(db_time_entries)
        THEN call.ret.ok /\ RowOf(db_time_entries, call.args.id) = call.args
        ELSE call.ret = Err("NotFound")

\* C14: create_time_entry with valid fields returns the entry with its
\* assigned id and the fields it was given, and get_time_entry on that id
\* returns that entry.
C14_TimeEntryRoundTrip ==
    Called("create_time_entry") =>
        /\ call.ret.ok
        /\ call.ret.value = NewTimeEntry(call.ret.value.id, call.args)
        /\ db_get_time_entry(db_time_entries, call.ret.value.id) = call.ret

\* C15: the settings table has one row for every save_settings call that
\* returned Ok, and get_settings returns the name and email of the most
\* recent of these calls, or Settings::default() when there was none.
C15_SettingsAppendOnly ==
    /\ Len(db_settings) = Len(saves)
    /\ Called("get_settings") =>
          /\ call.ret.ok
          /\ IF Len(saves) = 0 THEN call.ret.value = DefaultSettings
             ELSE call.ret.value.user = Last(saves)

\* get_settings after save_settings calls of which the last two gave different
\* users
C15_Witness ==
    /\ Called("get_settings")
    /\ Len(saves) >= 2
    /\ saves[Len(saves) - 1].name # Last(saves).name
    /\ saves[Len(saves) - 1].email # Last(saves).email
    /\ call.ret.value.user = Last(saves)

(* ------------------ claims on time entries and timestamps --------------- *)

\* the sum of end_time - start_time over the entries
RECURSIVE SumOfSpans(_)
SumOfSpans(entries) ==
    IF Len(entries) = 0 THEN 0
    ELSE (entries[1].end_time - entries[1].start_time)
         + SumOfSpans(SubSeq(entries, 2, Len(entries)))

\* the entries with their duration fields replaced by ds
WithDurations(entries, ds) ==
    [i \in 1 .. Len(entries) |-> [entries[i] EXCEPT !.duration = ds[i]]]

\* C22: the total drawn on the Time page is the sum of end_time - start_time
\* over the in-memory time entries, 0 with the text "No time entries" when
\* there are none, and the same total is drawn for the entries with any other
\* values in their duration fields.
C22_TotalOfSpans ==
    Called("render_time_entries") =>
        /\ call.ret.value.total = SumOfSpans(time_entries)
        /\ (Len(time_entries) = 0) <=>
              (call.ret.value.lines = <<"No time entries">>)
        /\ Len(time_entries) = 0 => call.ret.value.total = 0
        /\ \A ds \in [1 .. Len(time_entries) -> {0, 7, 3661}] :
              time_entries_text(WithDurations(time_entries, ds)).total
                 = call.ret.value.total

\* the Time page was drawn for two entries whose stored durations are not
\* their spans
C22_Witness ==
    /\ Called("render_time_entries")
    /\ Len(time_entries) = 2
    /\ \A i \in 1 .. 2 : time_entries[i].duration # duration(time_entries[i])
    /\ call.ret.value.total > 0

\* n >= 0 in decimal, with a leading zero when it has one digit
TwoDigits(n) == IF n < 10 THEN "0" \o ToString(n) ELSE ToString(n)

\* C28: for 0 <= start_time <= end_time, duration_string is
\* hours:minutes:seconds of total = end_time - start_time with hours =
\* total / 3600, minutes = (total % 3600) / 60 and seconds = total % 60, each
\* with at least two digits; 0 to 3661 gives 01:01:01.
C28_DurationString ==
    (/\ Called("duration_string")
     /\ 0 <= call.args.start_time
     /\ call.args.start_time <= call.args.end_time) =>
        LET total == call.args.end_time - call.args.start_time
        IN  /\ call.ret.value =
                  TwoDigits(total \div 3600) \o ":" \o
                  TwoDigits((total % 3600) \div 60) \o ":" \o
                  TwoDigits(total % 60)
            /\ total = 3661 => call.ret.value = "01:01:01"

\* duration_string was called on an entry from 0 to 3661
C28_Witness ==
    /\ Called("duration_string")
    /\ call.args.start_time = 0 /\ call.args.end_time = 3661
    /\ call.ret.value = "01:01:01"

\* the timestamps of the entries
Timestamps == StartTimes \cup EndTimes

\* C29: for x >= 0, to_i64(to_datetime(x)) = x, and to_datetime gives no
\* other timestamp the same DateTime.
C29_EpochRoundTrip ==
    /\ (Called("to_datetime") /\ call.args.x >= 0) =>
          /\ call.ret.ok
          /\ to_i64(call.ret.value) = Ok(call.args.x)
          /\ \A y \in Timestamps \ {call.args.x} : to_datetime(y) # call.ret
    /\ Called("to_i64") => call.ret = Ok(call.args.x)

\* a timestamp of more than one day has gone through to_datetime and to_i64
C29_Witness ==
    /\ Called("to_i64")
    /\ call.args.x > DaySecs
    /\ call.args.dt.days > 0 /\ call.args.dt.secs > 0
    /\ call.ret = Ok(call.args.x)

(* ------------------------ claims on the poller thread ------------------- *)

\* the step is a handle_events call of the App that read a key
NavigatorStep == KeyStep /\ UNCHANGED <<now, polled>>

\* the step is an iteration of the poller thread that read an event
PollerStep == polled' # polled

\* the time of the send before the i-th one, the start of the thread for the
\* first
SentBefore(i) == IF i = 1 THEN 0 ELSE channel[i - 1].at

\* C23: every event that handle_events dispatches is the oldest event waiting
\* in the channel of the poller thread and is taken from the channel by that
\* step.
C23_DispatchedFromChannel ==
    [][NavigatorStep =>
          /\ Len(channel) > 0
          /\ channel[1].event = ev'
          /\ channel' = SubSeq(channel, 2, Len(channel))]_vars

\* C24: a q that the App handles clears the flag the poller thread reads, and
\* a q that the poller thread reads sets the quit flag of the App.
C24_QuitPathsAgree ==
    [][/\ (NavigatorStep /\ ev' = "q") => ~poller_running'
       /\ (PollerStep /\ polled'.event = "q") => quit']_vars

\* C25: the channel never holds as many events as the model lets the poller
\* thread send.
C25_ChannelBounded == Len(channel) < MaxChannel

\* C26: every event sent on the channel was sent more than 100 ms after the
\* one before it (after the start of the thread, for the first); an event
\* that was not sent was read 100 ms or less after the last send, and
\* last_event is still the time of that send.
C26_ForwardedApart ==
    /\ \A i \in 1 .. Len(channel) : channel[i].at - SentBefore(i) > Throttle
    /\ last_event = SentBefore(Len(channel) + 1)
    /\ polled # NoPoll =>
          IF polled.sent
          THEN Last(channel) = [event |-> polled.event, at |-> polled.at]
          ELSE polled.at - last_event <= Throttle

\* two events are in the channel, and the event read after them was dropped
C26_Witness ==
    /\ Len(channel) = 2
    /\ polled # NoPoll /\ ~polled.sent
    /\ polled.at > channel[2].at

\* C27: an iteration of the poller thread that reads q clears the flag,
\* whether it sends the q or not, and sends no other event; once the flag is
\* clear the thread reads and sends nothing more and the flag stays clear.
C27_QuitStopsPoller ==
    [][/\ (PollerStep /\ polled'.event = "q") =>
            /\ ~poller_running'
            /\ \/ channel' = channel
               \/ channel' = Append(channel, [event |-> "q", at |-> now])
       /\ ~poller_running =>
            UNCHANGED <<poller_running, channel, last_event, polled>>]_vars

\* the thread has read a q that the throttle dropped, and has stopped
C27_Witness ==
    /\ polled.event = "q" /\ ~polled.sent
    /\ ~poller_running
    /\ now > polled.at

(* ----------------------------- claims on main --------------------------- *)

\* the task names of the prints of one kind, in the order printed
NamesOf(out, text) ==
    LET sel == SelectSeq(out, LAMBDA x : x.text = text)
    IN  [i \in 1 .. Len(sel) |-> sel[i].task]

\* main has left the loop
LeftLoop == main_pc \in {"exited", "done"}

\* C32: in the tracker loop of main at most one task is being timed: the list
\* of running tasks has at most one element, it is non-empty exactly when
\* ended is false, and the pop that stops a task never finds it empty.
C32_OneTaskTimed ==
    /\ Len(main_tasks) <= 1
    /\ (main_tasks # <<>>) <=> ~ended
    /\ main_pc # "panic"

\* a second task is being timed after the first was stopped
C32_Witness ==
    /\ main_pc = "timer"
    /\ Len(main_tasks) = 1
    /\ Len(tasks_completed) = 1

\* exit is the line main reads next at the task-name prompt
ExitAtPrompt ==
    /\ main_pc = "loop" /\ ended
    /\ trim(stdin_read_line(stdin)) = <<"exit">>

\* the output of a finished run: the welcome message first and before every
\* prompt, then after 'Tasks completed:' one line for each completed task in
\* the order the tasks were stopped, and 'Goodbye!' last
FinalOutput ==
    LET n == Len(stdout)
        k == Len(NamesOf(stdout, "completed"))
    IN  /\ n >= k + 3
        /\ stdout[1] = Welcome
        /\ \A i \in 1 .. n : stdout[i] = PromptLine => i > 1
        /\ stdout[n - k - 1] = TasksCompleted
        /\ SubSeq(stdout, n - k, n - 1) = Listing(NamesOf(stdout, "completed"))
        /\ NamesOf(stdout, "listing") = NamesOf(stdout, "completed")
        /\ stdout[n] = Goodbye

\* C33: once exit is entered at the task-name prompt the program terminates,
\* and the output of a terminated run starts with the welcome message, lists
\* after 'Tasks completed:' each started-and-stopped task once, in the order
\* the tasks were stopped, and ends with 'Goodbye!'.
C33_ExitListsTasks ==
    /\ [](main_pc = "done" => FinalOutput)
    /\ (ExitAtPrompt ~> main_pc = "done")

\* a run has ended after two tasks were started and stopped
C33_Witness ==
    /\ main_pc = "done"
    /\ Len(NamesOf(stdout, "listing")) = 2

\* the prompts, the starts and the completions printed, in order
Rounds ==
    SelectSeq(stdout, LAMBDA x : x = PromptLine
                                 \/ x.text \in {"Started task", "completed"})

\* C34: the prints of main go in rounds of prompt, start, completion of the
\* task that was started; when main leaves the loop after k completed tasks
\* it has printed the prompt k + 1 times and k completions, each between the
\* prompt that started its task and the next prompt.
C34_PromptAfterEachTask ==
    /\ \A i \in 1 .. Len(Rounds) :
          CASE i % 3 = 1 -> Rounds[i] = PromptLine
            [] i % 3 = 2 -> Rounds[i].text = "Started task"
            [] OTHER -> /\ Rounds[i].text = "completed"
                        /\ Rounds[i].task = Rounds[i - 1].task
    /\ LeftLoop =>
          /\ Len(Rounds) = 3 * Len(tasks_completed) + 1
          /\ Len(NamesOf(stdout, "completed")) = Len(tasks_completed)

\* exit was read at the third prompt
C34_Witness ==
    /\ main_pc = "exited"
    /\ Len(tasks_completed) = 2
    /\ Len(SelectSeq(stdout, LAMBDA x : x = PromptLine)) = 3

====
